---- MODULE Spec2Model ----
(***************************************************************************)
(* Model of the Oracle OCI builder driver (builder/oracle/oci):            *)
(* the single-call driver operations of driverOCI, the two named waits     *)
(* and the generic polling loop waitForResourceToReachState.               *)
(*                                                                         *)
(* The remote provider is the environment: every request of an operation   *)
(* is answered by the next entry of `script`, the responses the provider   *)
(* gives to this operation in order.  `calls` is the log of the requests   *)
(* the operation has issued and `slept` the log of the time.Sleep calls.   *)
(***************************************************************************)
EXTENDS Integers, Sequences, FiniteSets, TLC

\* ------------------------------------------------------------------ bounds
MaxScript == 3      \* longest provider script of one wait
MaxWaitStates == 2  \* longest waitStates slice
MaxRetries == 2     \* largest maxRetries passed to the generic waiter
MaxVnics == 2       \* most VNIC attachments in one listing
MaxConcurrentScript == 2   \* longest provider script of each of two concurrent waits

\* ------------------------------------------------------- program constants
Unlimited == 0          \* "Unlimited Retries" passed by both named waits
NamedWaitMillis == 5000 \* "5 second wait between retries"

\* ------------------------------------------------------------ value domains
States == {"PROVISIONING", "AVAILABLE", "TERMINATED"}
InstanceIds == {"instance1", "instance2"}
ImageIds == {"image1", "image2"}
VnicIds == {"vnic1", "vnic2"}
PublicKeys == {"ssh-rsa AAAA"}
NilPtr == "<nil pointer>"
PrivateIps == {"10.0.0.2"}
PublicIps == {"129.146.0.2", NilPtr}
WaitDurations == {0, NamedWaitMillis}

\* ------------------------------------------------------------------- errors
\* A Go error value is modelled by its format string and the values
\* formatted into it, each value as the sequence of strings it prints.
NilErr == [format |-> "<nil>", args |-> <<>>]

\* errors.New(text)
errorsNew(text) == [format |-> text, args |-> <<>>]

\* fmt.Errorf(format, args...)
fmtErrorf(format, args) == [format |-> format, args |-> args]

\* err.Error(): the text of an error, as the strings it is made of
ErrorText(e) == <<e.format>> \o
    (IF Len(e.args) = 0 THEN <<>> ELSE
     IF Len(e.args) = 1 THEN e.args[1] ELSE
     IF Len(e.args) = 2 THEN e.args[1] \o e.args[2]
     ELSE e.args[1] \o e.args[2] \o e.args[3])

\* The errors the provider's API answers with.
ProviderErrors == {errorsNew("503 service unavailable"), errorsNew("404 not found")}

\* A provider response: the value of a successful request, or an error.
Ok(v) == [val |-> v, err |-> NilErr]
FailWith(zero, e) == [val |-> zero, err |-> e]
Fail(e) == FailWith("", e)

\* What an operation returns: (value, error), or a panic.
Return(v, e) == [val |-> v, err |-> e, panicked |-> FALSE]
Panic == [val |-> "", err |-> NilErr, panicked |-> TRUE]
NoReturn == [val |-> "<running>", err |-> NilErr, panicked |-> FALSE]

\* All sequences over S of length at most n.
RECURSIVE SeqsUpTo(_, _)
SeqsUpTo(S, n) ==
    IF n = 0 THEN {<<>>}
    ELSE LET shorter == SeqsUpTo(S, n - 1)
         IN shorter \cup {Append(s, x) : s \in {t \in shorter : Len(t) = n - 1}, x \in S}

\* Those without a repeated element.
Range(s) == {s[k] : k \in 1 .. Len(s)}
DistinctSeqsUpTo(S, n) == {s \in SeqsUpTo(S, n) : Cardinality(Range(s)) = Len(s)}

\* ------------------------------------------------------------ waiter: code
\* stringSliceContains: loops through the slice, true on the first equal element.
RECURSIVE sliceContainsFrom(_, _, _)
sliceContainsFrom(slice, value, k) ==
    IF k > Len(slice) THEN FALSE
    ELSE IF slice[k] = value THEN TRUE
    ELSE sliceContainsFrom(slice, value, k + 1)

\* Mutant: the comparison inverted, true when some element differs from value.
stringSliceContainsInverted(slice, value) == \E k \in 1 .. Len(slice) : slice[k] # value

stringSliceContains(slice, value) == sliceContainsFrom(slice, value, 1)

\* Mutant: an off-by-one bound, one iteration too many.
LoopCondInclusive(mr, n) == mr = 0 \/ n <= mr

\* Mutant: 0 no longer means unlimited.
LoopCondBoundedOnly(mr, n) == n < mr

\* Mutant: the retry budget never checked.
LoopCondUnbounded(mr, n) == mr = 0 \/ n < mr \/ n >= mr

\* Mutant: 0 stands for a built-in budget of two retries.
LoopCondDefaultBudget(mr, n) == (mr = 0 /\ n < 2) \/ n < mr

\* Mutant: every maxRetries that is not positive taken for unlimited.
LoopCondNegativeUnbounded(mr, n) == mr <= 0 \/ n < mr

\* The loop condition of waitForResourceToReachState.
LoopCond(mr, n) == mr = 0 \/ n < mr

\* Mutant: the observed and the terminal state formatted in each other's place.
UnexpectedStateErrorSwapped(state, ws, ts) ==
    fmtErrorf("Unexpected resource state %s, expecting a waiting state %s or terminal state  %s ",
              << <<ts>>, ws, <<state>> >>)

\* The error of an observed state that is neither waiting nor terminal.
UnexpectedStateError(state, ws, ts) ==
    fmtErrorf("Unexpected resource state %s, expecting a waiting state %s or terminal state  %s ",
              << <<state>>, ws, <<ts>> >>)

\* The error returned once the loop condition fails.
MaxRetriesError(mr, ts) ==
    fmtErrorf("Maximum number of retries (%d) exceeded; resource did not reach state %s",
              << <<ToString(mr)>>, <<ts>> >>)

\* The accessor closures of WaitForImageCreation and WaitForInstanceState:
\* one GetImage / GetInstance request, (LifecycleState, nil) or ("", err).
GetResourceState(resp) ==
    IF resp.err # NilErr THEN [state |-> "", err |-> resp.err]
    ELSE [state |-> resp.val, err |-> NilErr]

\* Mutant: an accessor error is retried like a waiting state.
LoopBodyRetriesError(got, ws, ts) ==
    IF got.err # NilErr \/ stringSliceContains(ws, got.state)
    THEN [next |-> "sleep", err |-> NilErr]
    ELSE IF got.state = ts THEN [next |-> "return", err |-> NilErr]
    ELSE [next |-> "return", err |-> UnexpectedStateError(got.state, ws, ts)]

\* Mutant: an unexpected state is retried like a waiting state.
LoopBodyRetriesUnexpected(got, ws, ts) ==
    IF got.err # NilErr THEN [next |-> "return", err |-> got.err]
    ELSE IF got.state = ts THEN [next |-> "return", err |-> NilErr]
    ELSE [next |-> "sleep", err |-> NilErr]

\* Mutant: every state that is not a waiting state ends the wait with success.
LoopBodyAcceptsAnyState(got, ws, ts) ==
    IF got.err # NilErr THEN [next |-> "return", err |-> got.err]
    ELSE IF stringSliceContains(ws, got.state) THEN [next |-> "sleep", err |-> NilErr]
    ELSE [next |-> "return", err |-> NilErr]

\* The body of one loop iteration after the accessor has answered:
\* Mutant: equality with the terminal state tested before the waiting set.
LoopBodyTerminalFirst(got, ws, ts) ==
    IF got.err # NilErr THEN [next |-> "return", err |-> got.err]
    ELSE IF got.state = ts THEN [next |-> "return", err |-> NilErr]
    ELSE IF stringSliceContains(ws, got.state) THEN [next |-> "sleep", err |-> NilErr]
    ELSE [next |-> "return", err |-> UnexpectedStateError(got.state, ws, ts)]

\* what the loop does next and, when it returns, the error it returns.
LoopBody(got, ws, ts) ==
    IF got.err # NilErr THEN [next |-> "return", err |-> got.err]
    ELSE IF stringSliceContains(ws, got.state) THEN [next |-> "sleep", err |-> NilErr]
    ELSE IF got.state = ts THEN [next |-> "return", err |-> NilErr]
    ELSE [next |-> "return", err |-> UnexpectedStateError(got.state, ws, ts)]

\* Mutant: the delay taken for seconds.
SleepMillisAsSeconds(wd) == wd * 1000

\* The argument of time.Sleep, in milliseconds.
SleepMillis(wd) == wd

\* The API a wait's accessor calls.
AccessorApi(o) ==
    IF o = "WaitForImageCreation" THEN "GetImage"
    ELSE IF o = "WaitForInstanceState" THEN "GetInstance"
    ELSE "GetResourceState"

\* ------------------------------------------------------------ driver: code
\* CreateInstance: one LaunchInstance request.
CreateInstance(key, resp) ==
    [calls |-> <<[api |-> "LaunchInstance", arg |-> key]>>,
     ret |-> IF resp.err # NilErr THEN Return("", resp.err)
             ELSE IF resp.val = NilPtr THEN Panic
             ELSE Return(resp.val, NilErr)]

\* CreateImage: one CreateImage request.
CreateImage(instance, resp) ==
    [calls |-> <<[api |-> "CreateImage", arg |-> instance]>>,
     ret |-> IF resp.err # NilErr THEN Return("", resp.err)
             ELSE Return(resp.val, NilErr)]

\* Mutant: the error of the request dropped.
DeleteImageDropsError(image, resp) ==
    [calls |-> <<[api |-> "DeleteImage", arg |-> image]>>,
     ret |-> Return("", NilErr)]

\* DeleteImage: one DeleteImage request, its error returned as it is.
DeleteImage(image, resp) ==
    [calls |-> <<[api |-> "DeleteImage", arg |-> image]>>,
     ret |-> Return("", resp.err)]

\* Mutant: a failed request is issued a second time.
TerminateInstanceRetries(instance, resp) ==
    LET request == [api |-> "TerminateInstance", arg |-> instance] IN
    [calls |-> IF resp.err # NilErr THEN <<request, request>> ELSE <<request>>,
     ret |-> Return("", resp.err)]

\* TerminateInstance: one TerminateInstance request, its error returned as it is.
TerminateInstance(instance, resp) ==
    [calls |-> <<[api |-> "TerminateInstance", arg |-> instance]>>,
     ret |-> Return("", resp.err)]

\* Mutant: no check for an empty listing, Items[0] is out of range.
GetInstanceIPUnchecked(instance, vnics, vnic, usePrivateIP) ==
    LET list == [api |-> "ListVnicAttachments", arg |-> instance] IN
    IF vnics.err # NilErr THEN
        [calls |-> <<list>>, ret |-> Return("", vnics.err)]
    ELSE IF Len(vnics.val) < 1 THEN
        [calls |-> <<list>>, ret |-> Panic]
    ELSE
        [calls |-> <<list, [api |-> "GetVnic", arg |-> vnics.val[1]]>>,
         ret |-> IF vnic.err # NilErr THEN
                     Return("", fmtErrorf("Error getting VNIC details: %s",
                                          << ErrorText(vnic.err) >>))
                 ELSE LET ip == IF usePrivateIP THEN vnic.val.PrivateIp
                                ELSE vnic.val.PublicIp
                      IN IF ip = NilPtr THEN Panic ELSE Return(ip, NilErr)]

\* GetInstanceIP: list the VNIC attachments, then look the first one up.
GetInstanceIP(instance, vnics, vnic, usePrivateIP) ==
    LET list == [api |-> "ListVnicAttachments", arg |-> instance] IN
    IF vnics.err # NilErr THEN
        [calls |-> <<list>>, ret |-> Return("", vnics.err)]
    ELSE IF Len(vnics.val) < 1 THEN
        [calls |-> <<list>>, ret |-> Return("", errorsNew("instance has zero VNICs"))]
    ELSE
        [calls |-> <<list, [api |-> "GetVnic", arg |-> vnics.val[1]]>>,
         ret |-> IF vnic.err # NilErr THEN
                     Return("", fmtErrorf("Error getting VNIC details: %s",
                                          << ErrorText(vnic.err) >>))
                 ELSE LET ip == IF usePrivateIP THEN vnic.val.PrivateIp
                                ELSE vnic.val.PublicIp
                      IN IF ip = NilPtr THEN Panic ELSE Return(ip, NilErr)]

\* -------------------------------------------------------------------- state
VARIABLES
    cfg,            \* d.cfg: the driver's static configuration
    op,             \* the operation invoked last ("" before the first)
    id,             \* its id argument (publicKey for CreateInstance)
    waitStates,     \* arguments of the wait in progress
    terminalState,
    maxRetries,
    waitDuration,
    i,              \* the loop counter of waitForResourceToReachState
    pc,             \* "idle", "loop" (at the loop condition), "sleep", "done"
    script,         \* the provider's responses to this operation, in order
    calls,          \* the provider requests this operation has issued
    slept,          \* the durations of this operation's time.Sleep calls
    ret             \* what the operation returned

vars == <<cfg, op, id, waitStates, terminalState, maxRetries, waitDuration,
          i, pc, script, calls, slept, ret>>

\* The state of two waits running side by side, and of one NewConfig call;
\* the driver's operations above leave both alone.
VARIABLES
    inv,            \* per concurrent wait: its arguments, position and result
    frame,          \* per stack frame: the loop counter i that lives in it
    input,          \* what NewConfig is called with and finds on disk
    output          \* what NewConfig returned

others == <<inv, frame, input, output>>

Polls == Len(calls)

Responses == {Ok(s) : s \in States} \cup {Fail(e) : e \in ProviderErrors}
Scripts == SeqsUpTo(Responses, MaxScript)
WaitStateLists == DistinctSeqsUpTo(States, MaxWaitStates)
RetryBudgets == -1 .. MaxRetries

\* No operation invoked yet.
NoOperation ==
    /\ op = ""
    /\ id = ""
    /\ waitStates = <<>>
    /\ terminalState = ""
    /\ maxRetries = 0
    /\ waitDuration = 0
    /\ i = 0
    /\ pc = "idle"
    /\ script = <<>>
    /\ calls = <<>>
    /\ slept = <<>>
    /\ ret = NoReturn

Init ==
    /\ cfg \in [UsePrivateIP : BOOLEAN]
    /\ NoOperation
    /\ inv = <<>>
    /\ frame = <<>>
    /\ input = <<>>
    /\ output = <<>>

\* The driver keeps no state between operations (its fields are set once, by
\* NewDriverOCI), so a behaviour follows one operation from its invocation.
Callable == pc = "idle"

\* A single-call operation: invoked, answered and returned in one step.
SingleCall(name, argument, responses, result) ==
    /\ op' = name
    /\ id' = argument
    /\ script' = responses
    /\ calls' = result.calls
    /\ ret' = result.ret
    /\ pc' = "done"
    /\ slept' = <<>>
    /\ i' = 0
    /\ waitStates' = <<>>
    /\ terminalState' = ""
    /\ maxRetries' = 0
    /\ waitDuration' = 0
    /\ UNCHANGED <<cfg, others>>

DoCreateInstance ==
    /\ Callable
    /\ \E key \in PublicKeys, resp \in {Ok(x) : x \in InstanceIds} \cup {Fail(e) : e \in ProviderErrors} :
        SingleCall("CreateInstance", key, <<resp>>, CreateInstance(key, resp))

DoCreateImage ==
    /\ Callable
    /\ \E instance \in InstanceIds, resp \in {Ok(x) : x \in ImageIds} \cup {Fail(e) : e \in ProviderErrors} :
        SingleCall("CreateImage", instance, <<resp>>, CreateImage(instance, resp))

DoDeleteImage ==
    /\ Callable
    /\ \E image \in ImageIds, resp \in {Ok("")} \cup {Fail(e) : e \in ProviderErrors} :
        SingleCall("DeleteImage", image, <<resp>>, DeleteImage(image, resp))

DoTerminateInstance ==
    /\ Callable
    /\ \E instance \in InstanceIds, resp \in {Ok("")} \cup {Fail(e) : e \in ProviderErrors} :
        SingleCall("TerminateInstance", instance, <<resp>>, TerminateInstance(instance, resp))

NoVnic == [PrivateIp |-> NilPtr, PublicIp |-> NilPtr]
VnicListings ==
    {Ok(l) : l \in DistinctSeqsUpTo(VnicIds, MaxVnics)} \cup {FailWith(<<>>, e) : e \in ProviderErrors}
VnicLookups ==
    {Ok([PrivateIp |-> a, PublicIp |-> b]) : a \in PrivateIps, b \in PublicIps}
        \cup {FailWith(NoVnic, e) : e \in ProviderErrors}

DoGetInstanceIP ==
    /\ Callable
    /\ \E instance \in InstanceIds, vnics \in VnicListings, vnic \in VnicLookups :
        SingleCall("GetInstanceIP", instance, <<vnics, vnic>>,
                   GetInstanceIP(instance, vnics, vnic, cfg.UsePrivateIP))

\* Entry into waitForResourceToReachState: i := 0, nothing polled yet.
StartWait(name, resource, ws, ts, mr, wd, responses) ==
    /\ op' = name
    /\ id' = resource
    /\ waitStates' = ws
    /\ terminalState' = ts
    /\ maxRetries' = mr
    /\ waitDuration' = wd
    /\ script' = responses
    /\ i' = 0
    /\ pc' = "loop"
    /\ calls' = <<>>
    /\ slept' = <<>>
    /\ ret' = NoReturn
    /\ UNCHANGED <<cfg, others>>

\* Mutant: the waiting state and the terminal state exchanged.
WaitForImageCreationSwapped ==
    /\ Callable
    /\ \E image \in ImageIds, responses \in Scripts :
        StartWait("WaitForImageCreation", image, <<"AVAILABLE">>, "PROVISIONING",
                  Unlimited, NamedWaitMillis, responses)

WaitForImageCreation ==
    /\ Callable
    /\ \E image \in ImageIds, responses \in Scripts :
        StartWait("WaitForImageCreation", image, <<"PROVISIONING">>, "AVAILABLE",
                  Unlimited, NamedWaitMillis, responses)

WaitForInstanceState ==
    /\ Callable
    /\ \E instance \in InstanceIds, ws \in WaitStateLists, ts \in States, responses \in Scripts :
        StartWait("WaitForInstanceState", instance, ws, ts,
                  Unlimited, NamedWaitMillis, responses)

waitForResourceToReachState ==
    /\ Callable
    /\ \E resource \in {"image1"}, ws \in WaitStateLists, ts \in States,
       mr \in RetryBudgets, wd \in WaitDurations, responses \in Scripts :
        StartWait("waitForResourceToReachState", resource, ws, ts, mr, wd, responses)

\* Mutant: the budget checked right after the poll, the last sleep left out.
PollExhaustsEarly ==
    /\ pc = "loop"
    /\ LoopCond(maxRetries, i)
    /\ Polls < Len(script)
    /\ LET got == GetResourceState(script[Polls + 1])
           out == LoopBody(got, waitStates, terminalState)
       IN /\ calls' = Append(calls, [api |-> AccessorApi(op), arg |-> id])
          /\ IF out.next = "sleep"
             THEN IF LoopCond(maxRetries, i + 1)
                  THEN pc' = "sleep" /\ ret' = ret
                  ELSE pc' = "done" /\ ret' = Return("", MaxRetriesError(maxRetries, terminalState))
             ELSE pc' = "done" /\ ret' = Return("", out.err)
    /\ UNCHANGED <<cfg, op, id, waitStates, terminalState, maxRetries,
                   waitDuration, i, script, slept, others>>

\* One iteration: the loop condition holds, the accessor is called with id
\* and the loop body decides on its answer.
Poll ==
    /\ pc = "loop"
    /\ LoopCond(maxRetries, i)
    /\ Polls < Len(script)
    /\ LET got == GetResourceState(script[Polls + 1])
           out == LoopBody(got, waitStates, terminalState)
       IN /\ calls' = Append(calls, [api |-> AccessorApi(op), arg |-> id])
          /\ IF out.next = "sleep"
             THEN pc' = "sleep" /\ ret' = ret
             ELSE pc' = "done" /\ ret' = Return("", out.err)
    /\ UNCHANGED <<cfg, op, id, waitStates, terminalState, maxRetries,
                   waitDuration, i, script, slept, others>>

\* Mutant: `continue` without the time.Sleep before it.
SleepSkipped ==
    /\ pc = "sleep"
    /\ i' = i + 1
    /\ pc' = "loop"
    /\ UNCHANGED <<cfg, op, id, waitStates, terminalState, maxRetries,
                   waitDuration, script, calls, slept, ret, others>>

\* time.Sleep returns; `continue` runs the post statement i++.
Sleep ==
    /\ pc = "sleep"
    /\ slept' = Append(slept, SleepMillis(waitDuration))
    /\ i' = i + 1
    /\ pc' = "loop"
    /\ UNCHANGED <<cfg, op, id, waitStates, terminalState, maxRetries,
                   waitDuration, script, calls, ret, others>>

\* Mutant: the instance terminated before the retry error is returned.
ExhaustedCleansUp ==
    /\ pc = "loop"
    /\ ~LoopCond(maxRetries, i)
    /\ calls' = Append(calls, [api |-> "TerminateInstance", arg |-> id])
    /\ ret' = Return("", MaxRetriesError(maxRetries, terminalState))
    /\ pc' = "done"
    /\ UNCHANGED <<cfg, op, id, waitStates, terminalState, maxRetries,
                   waitDuration, i, script, slept, others>>

\* The loop condition fails: the statement after the loop returns.
Exhausted ==
    /\ pc = "loop"
    /\ ~LoopCond(maxRetries, i)
    /\ ret' = Return("", MaxRetriesError(maxRetries, terminalState))
    /\ pc' = "done"
    /\ UNCHANGED <<cfg, op, id, waitStates, terminalState, maxRetries,
                   waitDuration, i, script, calls, slept, others>>

Next ==
    \/ DoCreateInstance
    \/ DoCreateImage
    \/ DoDeleteImage
    \/ DoTerminateInstance
    \/ DoGetInstanceIP
    \/ WaitForImageCreation
    \/ WaitForInstanceState
    \/ waitForResourceToReachState
    \/ Poll
    \/ Sleep
    \/ Exhausted

Spec == Init /\ [][Next]_vars

\* ------------------------------------------------- two waits side by side
\* Two invocations of waitForResourceToReachState, each in a goroutine of its
\* own, on different resources; a step of the pair is a step of one of them.
Procs == {"a", "b"}
Awaited(p) == IF p = "a" THEN "image1" ELSE "instance1"

\* Mutant: the loop counter kept in one variable of the package.
FrameShared(p) == "a"

\* `for i := 0`: the counter is a local of the invocation, in its own frame.
Frame(p) == p

ConcurrentResponses == {Ok("PROVISIONING"), Ok("AVAILABLE"), Ok("TERMINATED"),
                        Fail(errorsNew("503 service unavailable"))}
ConcurrentScripts == SeqsUpTo(ConcurrentResponses, MaxConcurrentScript)

NotInvoked ==
    [pc |-> "idle", id |-> "", waitStates |-> <<>>, terminalState |-> "",
     maxRetries |-> 0, waitDuration |-> 0, script |-> <<>>,
     calls |-> <<>>, slept |-> <<>>, ret |-> NoReturn]

InitConcurrent ==
    /\ cfg = [UsePrivateIP |-> FALSE]
    /\ NoOperation
    /\ inv = [p \in Procs |-> NotInvoked]
    /\ frame = [p \in Procs |-> 0]
    /\ input = <<>>
    /\ output = <<>>

\* Entry of one of the two: its arguments bound, i := 0 in its frame.
StartConcurrent ==
    \E p \in Procs :
        /\ inv[p].pc = "idle"
        /\ \E mr \in 0 .. MaxRetries, responses \in ConcurrentScripts :
            inv' = [inv EXCEPT ![p] =
                       [pc |-> "loop", id |-> Awaited(p),
                        waitStates |-> <<"PROVISIONING">>, terminalState |-> "AVAILABLE",
                        maxRetries |-> mr, waitDuration |-> NamedWaitMillis,
                        script |-> responses, calls |-> <<>>, slept |-> <<>>,
                        ret |-> NoReturn]]
        /\ frame' = [frame EXCEPT ![Frame(p)] = 0]
        /\ UNCHANGED <<vars, input, output>>

\* One iteration of one of the two.
PollConcurrent ==
    \E p \in Procs :
        LET w == inv[p] IN
        /\ w.pc = "loop"
        /\ LoopCond(w.maxRetries, frame[Frame(p)])
        /\ Len(w.calls) < Len(w.script)
        /\ LET got == GetResourceState(w.script[Len(w.calls) + 1])
               out == LoopBody(got, w.waitStates, w.terminalState)
           IN inv' = [inv EXCEPT
                         ![p].calls = Append(@, [api |-> "GetResourceState", arg |-> w.id]),
                         ![p].pc = IF out.next = "sleep" THEN "sleep" ELSE "done",
                         ![p].ret = IF out.next = "sleep" THEN @ ELSE Return("", out.err)]
        /\ UNCHANGED <<vars, frame, input, output>>

\* time.Sleep returns in one of the two; `continue` runs its i++.
SleepConcurrent ==
    \E p \in Procs :
        /\ inv[p].pc = "sleep"
        /\ inv' = [inv EXCEPT ![p].slept = Append(@, SleepMillis(inv[p].waitDuration)),
                              ![p].pc = "loop"]
        /\ frame' = [frame EXCEPT ![Frame(p)] = @ + 1]
        /\ UNCHANGED <<vars, input, output>>

\* The loop condition of one of the two fails.
ExhaustedConcurrent ==
    \E p \in Procs :
        LET w == inv[p] IN
        /\ w.pc = "loop"
        /\ ~LoopCond(w.maxRetries, frame[Frame(p)])
        /\ inv' = [inv EXCEPT ![p].ret = Return("", MaxRetriesError(w.maxRetries, w.terminalState)),
                              ![p].pc = "done"]
        /\ UNCHANGED <<vars, frame, input, output>>

NextConcurrent ==
    \/ StartConcurrent
    \/ PollConcurrent
    \/ SleepConcurrent
    \/ ExhaustedConcurrent

SpecConcurrent == InitConcurrent /\ [][NextConcurrent]_<<vars, others>>

\* ------------------------------------------------------------- NewConfig
\* The two NewConfig of the sources: the one of config.go and the one that
\* follows the driver in driver_oci.go.
Variants == {"config.go", "driver_oci.go"}

\* The access settings, in the order NewConfig validates them.
Settings == <<"user_ocid", "tenancy_ocid", "region", "fingerprint">>
SettingNames == Range(Settings)

TemplateValue(k) == IF k = "region" THEN "us-ashburn-1" ELSE "template " \o k
FileValue(k) == IF k = "region" THEN "eu-frankfurt-1" ELSE "file " \o k
Unset == [k \in SettingNames |-> ""]

\* The configuration providers of the SDK. A raw provider and a file provider
\* answer a setting they hold, and answer an error for one they do not hold.
NewRawConfigurationProvider(values) ==
    [k \in SettingNames |->
        IF values[k] = "" THEN Fail(errorsNew(k \o " can not be empty"))
        ELSE Ok(values[k])]

ConfigurationProviderFromFileWithProfile(file) ==
    [k \in SettingNames |->
        IF file[k] = "" THEN Fail(errorsNew("configuration file did not contain " \o k))
        ELSE Ok(file[k])]

\* The composing provider answers with the first of its providers, from
\* position n on, that answers without an error.
RECURSIVE FirstAnswer(_, _, _)
FirstAnswer(providers, k, n) ==
    IF n > Len(providers)
    THEN Fail(errorsNew("did not find a proper configuration for " \o k))
    ELSE IF providers[n][k].err = NilErr THEN providers[n][k]
    ELSE FirstAnswer(providers, k, n + 1)

ComposingConfigurationProvider(providers) ==
    [k \in SettingNames |-> FirstAnswer(providers, k, 1)]

\* Mutant: the region defaulted whenever the template leaves it empty.
RegionDefaultIgnoresFile(in) ==
    IF in.variant = "driver_oci.go" /\ in.template["region"] = ""
    THEN "us-phoenix-1"
    ELSE in.template["region"]

\* c.Region when the providers are built: the driver_oci.go variant sets
\* us-phoenix-1 when the template has no region and the file, if it was
\* loaded, has none either.
RegionDefault(in) ==
    IF in.variant = "driver_oci.go" /\ in.template["region"] = ""
    THEN LET region == IF in.fileLoads
                       THEN ConfigurationProviderFromFileWithProfile(in.file)["region"].val
                       ELSE ""
         IN IF region = "" THEN "us-phoenix-1" ELSE in.template["region"]
    ELSE in.template["region"]

\* Mutant: the file provider ahead of the template's values.
ProvidersFileFirst(in) ==
    (IF in.fileLoads THEN <<ConfigurationProviderFromFileWithProfile(in.file)>> ELSE <<>>)
        \o <<NewRawConfigurationProvider([in.template EXCEPT !["region"] = RegionDefault(in)])>>

\* The providers handed to the composing provider: the template's values
\* first, then the file if it could be loaded.
Providers(in) ==
    <<NewRawConfigurationProvider([in.template EXCEPT !["region"] = RegionDefault(in)])>>
        \o (IF in.fileLoads THEN <<ConfigurationProviderFromFileWithProfile(in.file)>> ELSE <<>>)

\* packer.MultiErrorAppend: one more error in the list.
MultiErrorAppend(errs, e) == Append(errs, e)

MustBeSpecified(k) == "'" \o k \o "' must be specified"

\* The checks of the access settings, from the n-th on, appended to errs.
RECURSIVE ValidateAccess(_, _, _)
ValidateAccess(provider, errs, n) ==
    IF n > Len(Settings) THEN errs
    ELSE ValidateAccess(provider,
                        IF provider[Settings[n]].val = ""
                        THEN MultiErrorAppend(errs, MustBeSpecified(Settings[n]))
                        ELSE errs,
                        n + 1)

\* The checks that follow: the private key and, in driver_oci.go, the
\* availability domain.
ValidateRest(in, errs) ==
    IF in.variant = "config.go" THEN errs
    ELSE LET keyed == IF in.KeyFile = "" /\ ~in.fileLoads
                      THEN MultiErrorAppend(errs, MustBeSpecified("PrivateRSAKey"))
                      ELSE errs
         IN IF in.AvailabilityDomain = ""
            THEN MultiErrorAppend(keyed, MustBeSpecified("availability_domain"))
            ELSE keyed

MultiError(errs) == fmtErrorf("%d error(s) occurred:%s", << <<ToString(Len(errs))>>, errs >>)

NoProvider == [k \in SettingNames |-> Fail(NilErr)]
NilConfig == [nil |-> TRUE, provider |-> NoProvider, CompartmentID |-> ""]
NotCalled == [called |-> FALSE, config |-> NilConfig, err |-> NilErr]
Returns(c, e) == [called |-> TRUE, config |-> c, err |-> e]

NewConfig(in) ==
    IF ~in.decodes THEN
        Returns(NilConfig, fmtErrorf("Failed to mapstructure Config: %+v", << <<"decode error">> >>))
    ELSE IF in.KeyFile = "unreadable" THEN
        Returns(NilConfig, errorsNew("open key file: no such file or directory"))
    ELSE
        LET provider == ComposingConfigurationProvider(Providers(in))
            errs == ValidateRest(in, ValidateAccess(provider, <<>>, 1))
        IN IF /\ in.variant = "driver_oci.go"
              /\ in.CompartmentID = ""
              /\ provider["tenancy_ocid"].err # NilErr
           THEN Returns(NilConfig, provider["tenancy_ocid"].err)
           ELSE IF Len(errs) > 0 THEN Returns(NilConfig, MultiError(errs))
           ELSE Returns([nil |-> FALSE, provider |-> provider,
                         CompartmentID |-> IF in.variant = "driver_oci.go" /\ in.CompartmentID = ""
                                           THEN provider["tenancy_ocid"].val
                                           ELSE in.CompartmentID],
                        NilErr)

\* What a call of NewConfig can be given and can find on disk.
TemplateValues ==
    {[k \in SettingNames |-> IF k \in set THEN TemplateValue(k) ELSE ""] : set \in SUBSET SettingNames}
FileValues ==
    {[k \in SettingNames |-> IF k \in set THEN FileValue(k) ELSE ""] : set \in SUBSET SettingNames}

Inputs ==
    {[variant |-> v, decodes |-> d, template |-> t, KeyFile |-> key,
      CompartmentID |-> comp, AvailabilityDomain |-> ad, fileLoads |-> TRUE, file |-> f] :
        v \in Variants, d \in BOOLEAN, t \in TemplateValues,
        key \in {"", "readable", "unreadable"}, comp \in {"", "compartment1"},
        ad \in {"", "AD-1"}, f \in FileValues}
    \cup
    {[variant |-> v, decodes |-> d, template |-> t, KeyFile |-> key,
      CompartmentID |-> comp, AvailabilityDomain |-> ad, fileLoads |-> FALSE, file |-> Unset] :
        v \in Variants, d \in BOOLEAN, t \in TemplateValues,
        key \in {"", "readable", "unreadable"}, comp \in {"", "compartment1"},
        ad \in {"", "AD-1"}}

InitConfig ==
    /\ cfg = [UsePrivateIP |-> FALSE]
    /\ NoOperation
    /\ inv = <<>>
    /\ frame = <<>>
    /\ input \in Inputs
    /\ output = NotCalled

DoNewConfig ==
    /\ ~output.called
    /\ output' = NewConfig(input)
    /\ UNCHANGED <<vars, inv, frame, input>>

NextConfig == DoNewConfig

SpecConfig == InitConfig /\ [][NextConfig]_<<vars, others>>

\* ------------------------------------------------- vocabulary of the claims
IsWait == op \in {"WaitForImageCreation", "WaitForInstanceState", "waitForResourceToReachState"}

\* What the provider answers to the j-th request, as the waiter classifies it.
AccessorFails(j) == script[j].err # NilErr
Waiting(j) == script[j].err = NilErr /\ script[j].val \in Range(waitStates)
Terminal(j) == script[j].err = NilErr /\ script[j].val = terminalState
Unexpected(j) == script[j].err = NilErr /\ ~Waiting(j) /\ ~Terminal(j)

IsRetryExhaustion(e) ==
    e.format = "Maximum number of retries (%d) exceeded; resource did not reach state %s"
IsUnexpectedState(e) ==
    e.format = "Unexpected resource state %s, expecting a waiting state %s or terminal state  %s "

Returned == pc = "done"
Succeeded == Returned /\ ret.err = NilErr /\ ~ret.panicked

\* The accessor answers with waiting states only.
AlwaysWaiting == \A j \in 1 .. Len(script) : Waiting(j)

\* The accessor answers with waiting states and then, last, the terminal state.
WaitingThenTerminal ==
    /\ Len(script) >= 1
    /\ \A j \in 1 .. Len(script) - 1 : Waiting(j)
    /\ Terminal(Len(script))

\* Every sleep so far lasted the configured delay.
SleptConfiguredDelay == \A k \in 1 .. Len(slept) : slept[k] = waitDuration

\* ------------------------------------------------------------------- claims

\* C1: with maxRetries = k > 0 and an accessor that answers a waiting state on
\* every poll, the wait never polls more than k times, and when it returns it
\* returns the retry-exhaustion error after exactly k polls.
C1_ExhaustionAfterKPolls ==
    (IsWait /\ maxRetries > 0 /\ AlwaysWaiting) =>
        /\ Polls <= maxRetries
        /\ Returned => /\ Polls = maxRetries
                       /\ IsRetryExhaustion(ret.err)
                       /\ ~ret.panicked

C1_Witness ==
    /\ op = "waitForResourceToReachState"
    /\ maxRetries = 2 /\ Len(script) = 3 /\ AlwaysWaiting
    /\ Returned /\ Polls = 2 /\ IsRetryExhaustion(ret.err)

\* C2 as stated: for every wait whose accessor answers a waiting state on the
\* first N polls and the terminal state on the next, the wait returns success
\* after exactly N+1 polls and N sleeps of the configured delay.
C2_AsStated ==
    (IsWait /\ WaitingThenTerminal) =>
        /\ Returned => /\ Succeeded
                       /\ Polls = Len(script)
                       /\ Len(slept) = Len(script) - 1
                       /\ SleptConfiguredDelay
        /\ Polls = Len(script) => Returned

\* C2 amended: the same, for the waits whose terminal state is not one of the
\* waiting states and whose maxRetries is 0 or greater than N.
C2_SuccessAfterNWaits ==
    (/\ IsWait /\ WaitingThenTerminal
     /\ terminalState \notin Range(waitStates)
     /\ (maxRetries = 0 \/ maxRetries > Len(script) - 1)) =>
        /\ Returned => /\ Succeeded
                       /\ Polls = Len(script)
                       /\ Len(slept) = Len(script) - 1
                       /\ SleptConfiguredDelay
        /\ Polls = Len(script) => Returned

C2_Witness ==
    /\ op = "waitForResourceToReachState"
    /\ WaitingThenTerminal /\ Len(script) = 3
    /\ terminalState \notin Range(waitStates)
    /\ maxRetries = 0 /\ waitDuration = NamedWaitMillis
    /\ Succeeded /\ Polls = 3 /\ slept = <<NamedWaitMillis, NamedWaitMillis>>

\* C3: when the accessor fails on poll j the wait has returned exactly that
\* error, with no sleep after it (j - 1 sleeps) and no poll j + 1.
C3_AccessorErrorVerbatim ==
    IsWait =>
        \A j \in 1 .. Polls :
            AccessorFails(j) =>
                /\ Returned
                /\ ret = Return("", script[j].err)
                /\ Polls = j
                /\ Len(slept) = j - 1

C3_Witness ==
    /\ IsWait /\ Returned /\ Polls = 2 /\ Len(script) = 3
    /\ AccessorFails(2)
    /\ ret.err = script[2].err
    /\ Len(slept) = 1

\* C4: when poll j observes a state that is neither a waiting state nor the
\* terminal state, the wait has returned the unexpected-state error naming
\* that state, with no sleep after the observation and no further poll,
\* whatever maxRetries is.
C4_UnexpectedStateFailsAtOnce ==
    IsWait =>
        \A j \in 1 .. Polls :
            Unexpected(j) =>
                /\ Returned
                /\ ~ret.panicked
                /\ IsUnexpectedState(ret.err)
                /\ ret.err.args[1] = <<script[j].val>>
                /\ Polls = j
                /\ Len(slept) = j - 1

C4_Witness ==
    /\ IsWait /\ maxRetries = 0 /\ Len(script) = 3
    /\ Waiting(1) /\ Unexpected(2)
    /\ Returned /\ Polls = 2 /\ Len(slept) = 1
    /\ IsUnexpectedState(ret.err)
    /\ ret.err.args[1] = <<script[2].val>>

\* C5 as stated: with maxRetries = 0, whenever the accessor answers waiting
\* states on polls 1..M-1 and the terminal state on poll M, the wait returns
\* success after exactly M polls.
C5_AsStated ==
    (IsWait /\ maxRetries = 0 /\ WaitingThenTerminal) =>
        /\ Polls = Len(script) => Succeeded
        /\ Returned => Polls = Len(script)

\* C5 amended: the same, provided the terminal state is not one of the
\* waiting states; no M ends such a wait in retry exhaustion.
C5_UnboundedSucceedsAtM ==
    (/\ IsWait /\ maxRetries = 0 /\ WaitingThenTerminal
     /\ terminalState \notin Range(waitStates)) =>
        /\ Polls = Len(script) => Succeeded
        /\ Returned => Polls = Len(script)
        /\ ~IsRetryExhaustion(ret.err)

C5_Witness ==
    /\ op = "WaitForImageCreation"
    /\ maxRetries = 0 /\ WaitingThenTerminal /\ Len(script) = 3
    /\ Succeeded /\ Polls = 3 /\ i = 2

\* C6 as stated: for every wait whose accessor answers the terminal state on
\* the first query, the wait returns success after one poll and no sleep.
C6_AsStated ==
    (IsWait /\ Len(script) >= 1 /\ Terminal(1)) =>
        /\ Returned => (Succeeded /\ Polls = 1 /\ slept = <<>>)
        /\ Polls >= 1 => Returned

\* C6 amended: the same, for the waits whose terminal state is not one of the
\* waiting states and whose maxRetries is not negative.
C6_TerminalAtFirstPoll ==
    (/\ IsWait /\ Len(script) >= 1 /\ Terminal(1)
     /\ terminalState \notin Range(waitStates)
     /\ maxRetries >= 0) =>
        /\ Returned => (Succeeded /\ Polls = 1 /\ slept = <<>>)
        /\ Polls >= 1 => Returned

C6_Witness ==
    /\ IsWait /\ Len(script) = 2 /\ Terminal(1)
    /\ Len(waitStates) = 2 /\ terminalState \notin Range(waitStates)
    /\ maxRetries = 1
    /\ Succeeded /\ Polls = 1 /\ slept = <<>>

\* The three outcomes of a wait that has returned.
ReturnedSuccess == ret.err = NilErr
ReturnedAccessorError == ret.err \in ProviderErrors
ReturnedSynthesized == IsUnexpectedState(ret.err) \/ IsRetryExhaustion(ret.err)

WaitOutcome ==
    IsWait =>
        /\ ~Returned => ret = NoReturn
        /\ Returned =>
            /\ ~ret.panicked /\ ret.val = ""
            /\ ReturnedSuccess \/ ReturnedAccessorError \/ ReturnedSynthesized
            /\ ~(ReturnedSuccess /\ ReturnedAccessorError)
            /\ ~(ReturnedSuccess /\ ReturnedSynthesized)
            /\ ~(ReturnedAccessorError /\ ReturnedSynthesized)
            /\ ReturnedSuccess => (Polls >= 1 /\ Terminal(Polls))
            /\ ReturnedAccessorError => (Polls >= 1 /\ script[Polls].err = ret.err)
            /\ IsUnexpectedState(ret.err) => (Polls >= 1 /\ Unexpected(Polls))
            /\ IsRetryExhaustion(ret.err) => (Polls = 0 \/ Waiting(Polls))

\* C7: a wait that has returned ended in exactly one of success, the
\* accessor's own error, or a synthesized error; success only if the last poll
\* observed the terminal state, the accessor's error only if the last poll
\* failed; and once it has returned there is no further poll, sleep or result.
C7_ThreeOutcomes ==
    /\ []WaitOutcome
    /\ [][(IsWait /\ Returned) => UNCHANGED <<calls, slept, ret, pc, i>>]_vars

C7_Witness ==
    /\ op = "WaitForInstanceState" /\ Returned
    /\ ReturnedAccessorError /\ Polls = 3 /\ Len(slept) = 2

\* C8 as stated: every synthesized error names the resource id, the observed
\* state and the expected states (the waiting set and the terminal state).
C8_AsStated ==
    (IsWait /\ Returned /\ ReturnedSynthesized) =>
        /\ <<id>> \in Range(ret.err.args)
        /\ Polls >= 1 => <<script[Polls].val>> \in Range(ret.err.args)
        /\ waitStates \in Range(ret.err.args)
        /\ <<terminalState>> \in Range(ret.err.args)

\* C8 amended: the unexpected-state error names the observed state, the
\* waiting states and the terminal state; the retry-exhaustion error names the
\* configured maxRetries and the terminal state; neither names the resource id.
C8_SynthesizedErrorContents ==
    (IsWait /\ Returned) =>
        /\ IsUnexpectedState(ret.err) =>
               ret.err.args = << <<script[Polls].val>>, waitStates, <<terminalState>> >>
        /\ IsRetryExhaustion(ret.err) =>
               ret.err.args = << <<ToString(maxRetries)>>, <<terminalState>> >>
        /\ ReturnedSynthesized => <<id>> \notin Range(ret.err.args)

C8_Witness ==
    /\ op = "WaitForInstanceState" /\ Returned
    /\ IsUnexpectedState(ret.err)
    /\ waitStates = <<"PROVISIONING", "AVAILABLE">> /\ terminalState = "AVAILABLE"
    /\ ret.err.args = << <<"TERMINATED">>, <<"PROVISIONING", "AVAILABLE">>, <<"AVAILABLE">> >>

\* The j-th provider request of the operation failed.
RequestFailed(j) == script[j].err # NilErr

\* C9 as stated: whenever a provider request of a driver operation or of a
\* wait's accessor fails, the operation returns exactly the provider's error.
C9_AsStated ==
    \A j \in 1 .. Len(calls) :
        RequestFailed(j) => (Returned /\ ret.err = script[j].err)

\* C9 amended: the same, except that GetInstanceIP returns a failure of its
\* GetVnic request as a new error, "Error getting VNIC details: " followed by
\* the text of the provider's error.
C9_ProviderErrorReturned ==
    \A j \in 1 .. Len(calls) :
        RequestFailed(j) =>
            /\ Returned /\ ~ret.panicked /\ ret.val = "" /\ j = Len(calls)
            /\ IF calls[j].api = "GetVnic"
               THEN /\ ret.err.format = "Error getting VNIC details: %s"
                    /\ ret.err.args = << <<script[j].err.format>> >>
               ELSE ret.err = script[j].err

C9_Witness ==
    /\ op = "GetInstanceIP" /\ Returned
    /\ Len(calls) = 2 /\ calls[2].api = "GetVnic"
    /\ ~RequestFailed(1) /\ RequestFailed(2)
    /\ ret.err # script[2].err
    /\ ret.err.args = << <<"404 not found">> >>

\* C10: when the listing succeeds with zero attachments, GetInstanceIP returns
\* no address and the zero-VNIC error (an error of its own, not a provider
\* error and not nil), having issued the one listing request and no GetVnic.
C10_ZeroAttachments ==
    (op = "GetInstanceIP" /\ script[1].err = NilErr /\ Len(script[1].val) = 0) =>
        /\ Returned /\ ~ret.panicked
        /\ ret.val = ""
        /\ ret.err = errorsNew("instance has zero VNICs")
        /\ ret.err # NilErr /\ ret.err \notin ProviderErrors
        /\ calls = <<[api |-> "ListVnicAttachments", arg |-> id]>>

C10_Witness ==
    /\ op = "GetInstanceIP" /\ Returned
    /\ script[1] = Ok(<<>>)
    /\ script[2].err = NilErr
    /\ ret.err.format = "instance has zero VNICs"
    /\ Len(calls) = 1

\* The driver operations that are not waits.
DriverOps == {"CreateInstance", "CreateImage", "DeleteImage", "TerminateInstance", "GetInstanceIP"}

\* The provider request behind each single-request operation.
RequestOf(o) == IF o = "CreateInstance" THEN "LaunchInstance" ELSE o

\* C11 as stated: one invocation of a driver operation issues exactly one
\* provider request, whether that request succeeds or fails.
C11_AsStated ==
    (op \in DriverOps /\ Returned) => Len(calls) = 1

\* C11 amended: CreateInstance, CreateImage, DeleteImage and TerminateInstance
\* issue exactly one request, of their own kind, whether it succeeds or fails.
\* GetInstanceIP issues one ListVnicAttachments request and, only when that
\* listing succeeds with at least one attachment, one GetVnic request for the
\* first attachment. No operation issues the same request twice.
C11_NoInternalRetry ==
    (op \in DriverOps) =>
        /\ Returned
        /\ IF op = "GetInstanceIP"
           THEN LET list == [api |-> "ListVnicAttachments", arg |-> id] IN
                IF script[1].err # NilErr \/ Len(script[1].val) < 1
                THEN calls = <<list>>
                ELSE calls = <<list, [api |-> "GetVnic", arg |-> script[1].val[1]]>>
           ELSE calls = <<[api |-> RequestOf(op), arg |-> id]>>
        /\ \A j, k \in 1 .. Len(calls) : calls[j] = calls[k] => j = k

C11_Witness ==
    /\ op = "GetInstanceIP" /\ Returned
    /\ script[1].err = NilErr /\ Len(script[1].val) = 2
    /\ script[2].err # NilErr
    /\ Len(calls) = 2 /\ calls[1].api = "ListVnicAttachments" /\ calls[2].api = "GetVnic"

\* The first n answers of the accessor are n-1 times PROVISIONING and then
\* AVAILABLE, none of them an error.
ProvisioningThenAvailable(n) ==
    /\ n \in 1 .. Len(script)
    /\ \A j \in 1 .. n - 1 : script[j] = Ok("PROVISIONING")
    /\ script[n] = Ok("AVAILABLE")

\* C12: WaitForImageCreation runs the generic wait with the waiting states
\* {PROVISIONING}, the terminal state AVAILABLE and unlimited retries. It
\* returns success exactly when what it observed is zero or more PROVISIONING
\* followed by AVAILABLE, after as many polls as that sequence is long; for
\* PROVISIONING, PROVISIONING, AVAILABLE that is success after exactly 3 polls.
C12_ImageCreation ==
    (op = "WaitForImageCreation") =>
        /\ waitStates = <<"PROVISIONING">>
        /\ terminalState = "AVAILABLE"
        /\ maxRetries = 0
        /\ Returned => (Succeeded <=> ProvisioningThenAvailable(Polls))
        /\ \A n \in 1 .. Len(script) :
               ProvisioningThenAvailable(n) =>
                   /\ Polls <= n
                   /\ Polls = n => Succeeded
                   /\ Returned => Polls = n
        /\ (script = <<Ok("PROVISIONING"), Ok("PROVISIONING"), Ok("AVAILABLE")>> /\ Returned) =>
               (Succeeded /\ Polls = 3)

C12_Witness ==
    /\ op = "WaitForImageCreation"
    /\ script = <<Ok("PROVISIONING"), Ok("PROVISIONING"), Ok("AVAILABLE")>>
    /\ Succeeded /\ Polls = 3 /\ Len(slept) = 2

\* Between the polls of a wait: each poll but the last has been followed by
\* one sleep of the configured delay, and the wait sleeps only on a waiting
\* state.
PollsAndSleepsAlternate ==
    IsWait =>
        /\ Len(slept) <= Polls
        /\ Polls <= Len(slept) + 1
        /\ SleptConfiguredDelay
        /\ \A j \in 1 .. Len(slept) : Waiting(j)
        /\ pc = "sleep" => (Polls = Len(slept) + 1 /\ Waiting(Polls))
        /\ pc = "loop" => Polls = Len(slept)

\* A step that starts a poll: every earlier poll has returned a waiting state
\* and has been followed by its sleep.
PollStep ==
    (IsWait /\ calls' # calls) =>
        /\ Len(calls') = Len(calls) + 1
        /\ slept' = slept
        /\ Len(slept) = Polls
        /\ Polls >= 1 => (Waiting(Polls) /\ slept[Polls] = waitDuration)

\* A step that sleeps: it follows a poll that has not been slept on yet, and
\* no poll starts during it.
SleepStep ==
    (IsWait /\ slept' # slept) =>
        /\ calls' = calls
        /\ Len(slept) + 1 = Polls
        /\ slept' = Append(slept, waitDuration)

\* C13: within one wait the polls are sequential and spaced by the configured
\* delay: poll j+1 starts only after poll j returned a waiting state and
\* exactly one sleep of the configured delay completed; there are never two
\* polls without a sleep between them, and no step has two polls in it.
C13_PollsSpacedBySleeps ==
    /\ []PollsAndSleepsAlternate
    /\ [][PollStep /\ SleepStep]_vars

C13_Witness ==
    /\ IsWait /\ Polls = 3 /\ Len(slept) = 2
    /\ waitDuration = NamedWaitMillis
    /\ slept = <<NamedWaitMillis, NamedWaitMillis>>
    /\ Waiting(1) /\ Waiting(2)

\* The provider requests that only read a resource's state.
StateQueries == {"GetImage", "GetInstance", "GetResourceState"}

\* Every request of the wait so far is the state query of its accessor, for
\* the awaited resource.
OnlyStateQueries ==
    IsWait =>
        \A k \in 1 .. Len(calls) :
            /\ calls[k].api \in StateQueries
            /\ calls[k].api = AccessorApi(op)
            /\ calls[k].arg = id

\* A step of a wait keeps the awaited id and issues at most one request, a
\* state query for that id.
WaitStepQueriesOnly ==
    IsWait =>
        /\ id' = id
        /\ op' = op
        /\ \/ calls' = calls
           \/ calls' = Append(calls, [api |-> AccessorApi(op), arg |-> id])

\* C15: a wait performs no recovery or compensating action: the only provider
\* requests it issues are state queries for the awaited resource, never a
\* create, delete or terminate, and the id handed to the accessor is the same
\* on every poll.
C15_NoRecovery ==
    /\ []OnlyStateQueries
    /\ [][WaitStepQueriesOnly]_vars

C15_Witness ==
    /\ op = "WaitForInstanceState" /\ Returned
    /\ IsUnexpectedState(ret.err)
    /\ Polls = 3
    /\ \A k \in 1 .. 3 : calls[k] = [api |-> "GetInstance", arg |-> id]

\* Some step of the wait can be taken.
WaitCanStep == ENABLED (Poll \/ Sleep \/ Exhausted)

\* C19: with maxRetries = k > 0 a wait never polls more than k times and never
\* sleeps more than k times, whatever the accessor answers, and as long as the
\* accessor answers its polls the wait is never stuck short of returning.
C19_BoundedWaitTerminates ==
    (IsWait /\ maxRetries > 0) =>
        /\ Polls <= maxRetries
        /\ Len(slept) <= maxRetries
        /\ i <= maxRetries
        /\ Len(script) >= maxRetries => (Returned \/ WaitCanStep)
        /\ (Polls = maxRetries /\ Len(slept) = maxRetries) =>
               (Returned \/ ENABLED Exhausted)

C19_Witness ==
    /\ op = "waitForResourceToReachState"
    /\ maxRetries = 2 /\ Len(script) = 3
    /\ Returned /\ Polls = 2 /\ Len(slept) = 2
    /\ IsRetryExhaustion(ret.err)

\* Every poll so far was answered with a waiting state.
ObservedOnlyWaiting == \A j \in 1 .. Polls : Waiting(j)

\* C20: with maxRetries = 0, which is what WaitForImageCreation and
\* WaitForInstanceState always pass, the retry error is never returned and
\* nothing else ends the wait: while every answer is a waiting state the wait
\* has not returned and goes on polling, and when it has returned, its last
\* poll was answered with the terminal state, an unexpected state or an error.
C20_UnboundedNeverExhausts ==
    /\ op \in {"WaitForImageCreation", "WaitForInstanceState"} => maxRetries = 0
    /\ (IsWait /\ maxRetries = 0) =>
        /\ ~IsRetryExhaustion(ret.err)
        /\ ~ENABLED Exhausted
        /\ Returned =>
               /\ Polls >= 1
               /\ ~Waiting(Polls)
               /\ Terminal(Polls) \/ Unexpected(Polls) \/ AccessorFails(Polls)
        /\ ObservedOnlyWaiting =>
               /\ ~Returned
               /\ Polls < Len(script) => WaitCanStep
               /\ pc = "sleep" => ENABLED Sleep

C20_Witness ==
    /\ op = "WaitForInstanceState" /\ maxRetries = 0
    /\ Len(script) = 3 /\ AlwaysWaiting
    /\ Polls = 3 /\ Len(slept) = 3 /\ pc = "loop" /\ ~Returned

\* The wait w run by itself from loop counter n with polls of its accessor's
\* answers consumed: where it ends, or stops for want of an answer.
RECURSIVE RunFrom(_, _, _)
RunFrom(w, n, polls) ==
    IF ~LoopCond(w.maxRetries, n) THEN
        [returned |-> TRUE, polls |-> polls, sleeps |-> n,
         ret |-> Return("", MaxRetriesError(w.maxRetries, w.terminalState))]
    ELSE IF polls >= Len(w.script) THEN
        [returned |-> FALSE, polls |-> polls, sleeps |-> n, ret |-> NoReturn]
    ELSE LET out == LoopBody(GetResourceState(w.script[polls + 1]),
                             w.waitStates, w.terminalState)
         IN IF out.next = "sleep" THEN RunFrom(w, n + 1, polls + 1)
            ELSE [returned |-> TRUE, polls |-> polls + 1, sleeps |-> n,
                  ret |-> Return("", out.err)]

RunAlone(w) == RunFrom(w, 0, 0)

\* The concurrent wait p has a step it can take.
CanStep(p) ==
    \/ inv[p].pc = "sleep"
    \/ /\ inv[p].pc = "loop"
       /\ \/ ~LoopCond(inv[p].maxRetries, frame[Frame(p)])
          \/ Len(inv[p].calls) < Len(inv[p].script)

\* C14: two waits running concurrently on different resources share no
\* mutable state: under every interleaving of their steps each one polls and
\* sleeps no more than it would alone, and ends with the outcome, the number
\* of polls and the number of sleeps it would have had alone against its own
\* accessor's answers.
C14_ConcurrentWaitsIndependent ==
    \A p \in Procs :
        inv[p].pc # "idle" =>
            LET alone == RunAlone(inv[p]) IN
            /\ Len(inv[p].calls) <= alone.polls
            /\ Len(inv[p].slept) <= alone.sleeps
            /\ \A k \in 1 .. Len(inv[p].calls) : inv[p].calls[k].arg = Awaited(p)
            /\ inv[p].pc = "done" =>
                   /\ alone.returned
                   /\ inv[p].ret = alone.ret
                   /\ Len(inv[p].calls) = alone.polls
                   /\ Len(inv[p].slept) = alone.sleeps
            /\ (inv[p].pc # "done" /\ ~CanStep(p)) =>
                   /\ ~alone.returned
                   /\ Len(inv[p].calls) = alone.polls
                   /\ Len(inv[p].slept) = alone.sleeps

C14_Witness ==
    /\ inv["a"].pc = "done" /\ inv["b"].pc = "sleep"
    /\ inv["a"].maxRetries = 2 /\ inv["b"].maxRetries = 2
    /\ IsRetryExhaustion(inv["a"].ret.err)
    /\ Len(inv["a"].calls) = 2 /\ Len(inv["a"].slept) = 2
    /\ Len(inv["b"].calls) = 2 /\ Len(inv["b"].slept) = 1

\* The setting k is available neither from the template nor from the access
\* config file; a region that NewConfig defaults does not count.
Missing(k) ==
    /\ input.template[k] = ""
    /\ ~input.fileLoads \/ input.file[k] = ""
    /\ ~(k = "region" /\ RegionDefault(input) # "")
SeveralMissing == Cardinality({k \in SettingNames : Missing(k)}) >= 2

\* The returned error is the accumulated one and names the setting k.
Names(k) ==
    /\ output.err.format = "%d error(s) occurred:%s"
    /\ MustBeSpecified(k) \in Range(output.err.args[2])

ConfigReturned == output.called /\ ~output.config.nil /\ output.err = NilErr
Reported(k) == output.config.provider[k]
InFile(k) == input.fileLoads /\ input.file[k] # ""

AlwaysTerminal == \A j \in 1 .. Len(script) : script[j] = Ok(terminalState)

\* C21: membership in the waiting set is tested before equality with the
\* terminal state. When the terminal state is one of the waiting states,
\* observing it is slept on like any waiting state and the wait never returns
\* success; with the accessor reporting that state on every poll the wait
\* ends in the retry error after maxRetries polls when maxRetries > 0, and
\* has not returned, and can go on, when maxRetries = 0.
C21_WaitingTestedFirst ==
    (IsWait /\ terminalState \in Range(waitStates)) =>
        /\ ~Succeeded
        /\ \A j \in 1 .. Polls :
               script[j] = Ok(terminalState) =>
                   \/ j <= Len(slept)
                   \/ j = Polls /\ pc = "sleep"
        /\ AlwaysTerminal =>
               /\ (maxRetries > 0 /\ Returned) =>
                      (IsRetryExhaustion(ret.err) /\ Polls = maxRetries)
               /\ (maxRetries > 0 /\ Len(script) >= maxRetries) => (Returned \/ WaitCanStep)
               /\ maxRetries = 0 =>
                      (~Returned /\ (Polls < Len(script) => WaitCanStep))

C21_Witness ==
    /\ op = "waitForResourceToReachState"
    /\ waitStates = <<"PROVISIONING", "AVAILABLE">> /\ terminalState = "AVAILABLE"
    /\ maxRetries = 2 /\ Len(script) = 3 /\ AlwaysTerminal
    /\ Returned /\ IsRetryExhaustion(ret.err)
    /\ Polls = 2 /\ Len(slept) = 2

\* The step that returns the retry error: taken at the loop condition, after
\* as many sleeps as maxRetries, and without a poll.
ExhaustionStep ==
    (IsWait /\ maxRetries > 0 /\ ~Returned /\ IsRetryExhaustion(ret'.err)) =>
        /\ pc = "loop"
        /\ Len(slept) = maxRetries
        /\ Polls = maxRetries
        /\ calls' = calls /\ slept' = slept

\* C22: the retry budget is checked only after the sleep that follows the last
\* allowed poll. With maxRetries = k > 0 a wait that returns the retry error
\* has polled k times, each time observing a waiting state, and has slept k
\* times, once after the k-th poll as well; it does not poll again, so what
\* the accessor would answer next, the terminal state included, is never
\* observed.
C22_ExhaustionAfterLastSleep ==
    /\ []((IsWait /\ maxRetries > 0 /\ Returned /\ IsRetryExhaustion(ret.err)) =>
              /\ Polls = maxRetries
              /\ Len(slept) = maxRetries
              /\ SleptConfiguredDelay
              /\ \A j \in 1 .. Polls : Waiting(j))
    /\ []((IsWait /\ maxRetries > 0 /\ Polls = maxRetries /\ Waiting(Polls)) =>
              (Returned => (IsRetryExhaustion(ret.err) /\ Len(slept) = maxRetries)))
    /\ [][ExhaustionStep]_vars

C22_Witness ==
    /\ op = "waitForResourceToReachState"
    /\ maxRetries = 2 /\ Len(script) = 3
    /\ Waiting(1) /\ Waiting(2) /\ Terminal(3) /\ ~Waiting(3)
    /\ Returned /\ IsRetryExhaustion(ret.err)
    /\ Polls = 2 /\ Len(slept) = 2

\* C23: with a negative maxRetries the wait polls and sleeps not once and can
\* only return the retry error, whatever the accessor would answer, the
\* terminal state included; only maxRetries = 0 is unlimited.
C23_NegativeBudget ==
    (IsWait /\ maxRetries < 0) =>
        /\ Polls = 0
        /\ slept = <<>>
        /\ Returned =>
               /\ ret = Return("", MaxRetriesError(maxRetries, terminalState))
               /\ IsRetryExhaustion(ret.err)
        /\ ~Returned => (pc = "loop" /\ i = 0 /\ ENABLED Exhausted /\ ~ENABLED Poll)

C23_Witness ==
    /\ op = "waitForResourceToReachState"
    /\ maxRetries = -1
    /\ Len(script) >= 1 /\ Terminal(1) /\ ~Waiting(1)
    /\ Returned /\ IsRetryExhaustion(ret.err)
    /\ ret.err.args = << <<"-1">>, <<terminalState>> >>
    /\ Polls = 0 /\ Len(slept) = 0

====
